---- MODULE Spec2Model ----
(***************************************************************************)
(* Model of the FileUpload component with chunked IndexedDB persistence    *)
(* (src/unnamed/part_000): handleFiles / processNextChunk, saveChunk,      *)
(* clearChunksByFileId, removePreview, removeAll, uploadAll, ngOnDestroy.  *)
(*                                                                         *)
(* Scheduling: JavaScript runs one macrotask at a time.  Each action below *)
(* is one macrotask (a user event, a promise settling, an IndexedDB event, *)
(* a timer) together with the microtasks it triggers, i.e. everything up   *)
(* to the next await on something that is still pending.                   *)
(*                                                                         *)
(* The model covers one component lifetime over a database that holds no   *)
(* rows when the component is constructed.                                 *)
(***************************************************************************)
EXTENDS Integers, Sequences, FiniteSets, TLC

\* ---------------------------------------------------------------- bounds
MaxFiles == 2          \* files accepted per lifetime (cap on idCounter)
MaxBigFiles == 1
MaxSessions == 2       \* component instances over the same store
MaxRestartFiles == 1   \* files accepted per instance where instances follow each other
MaxRestartCalls == 1   \* removals and exports over those instances
MaxLiveFiles == 2      \* the same cap for the lifetimes checked for termination
MaxLiveCalls == 1      \* removePreview / removeAll / uploadAll calls in them
MaxEdgeFiles == 1      \* the same cap for the sizes next to chunk boundaries
MaxAnimFiles == 2      \* records created per lifetime of the animated component
MaxClock == 600        \* milliseconds of a lifetime of the animated component
DateEpoch == 100000    \* Date.now() at construction (above any counter value)       \* the same cap where every file has 200 chunks
MaxCalls == 2          \* removePreview / removeAll / uploadAll invocations

\* ------------------------------------------------------------- constants
CHUNK_SIZE == 262144   \* const chunkSize = 1024 * 256

Types == {"image", "video"}

\* File sizes offered by the user: 0, 1 and 2 chunks (the last one short).
Sizes == {0, CHUNK_SIZE, 300000}

\* A file of 200 chunks: the smallest count at which Math.round reaches 100
\* before the last chunk.
BigSizes == {200 * CHUNK_SIZE}

\* file sizes of the lifetimes checked for termination: no chunk, two chunks
LiveSizes == {0, 300000}

\* file sizes around the chunk boundaries
EdgeSizes ==
  {0, 1, CHUNK_SIZE - 1, CHUNK_SIZE, CHUNK_SIZE + 1, 300000,
   2 * CHUNK_SIZE, 2 * CHUNK_SIZE + 1}

\* Ids of the animated component are doubles. Between 2^40 and 2^41, where
\* Date.now() lies, a double has 12 fractional bits: ids are counted in units
\* of 1/4096.
FractionSteps == 4096

\* the fractions Math.random() contributes once the sum is rounded to a double
\* (the largest rounds up to the next millisecond)
RandomFractions == {0, 2048, FractionSteps}

\* file sizes offered to the animated component (animations of 300 and 600 ms)
AnimSizes == {0, 300000}

\* milliseconds between two animation frames
FrameGaps == {150, 300}

VARIABLES
  idCounter,     \* private idCounter
  images,        \* this.images: sequence of references (ids) to placeholders
  videos,        \* this.videos
  placeholder,   \* the PreviewFile objects, by id (shared by list and closure)
  pipe,          \* per file: where its processNextChunk closure stands
  dbPromise,     \* "pending" | "resolved" | "rejected"
  dbWaiters,     \* continuations awaiting dbPromise, in registration order
  chunks,        \* committed rows of object store 'chunks'
  txQueue,       \* readwrite transactions on 'chunks', in creation order
  ops,           \* removePreview / removeAll-item / uploadAll invocations
  nCalls,        \* number of user invocations so far (bounded by MaxCalls)
  revoked,       \* per object URL: number of URL.revokeObjectURL calls
  localStorage,  \* per storage key: the manifest written, or <<>> if none
  destroyed,     \* ngOnDestroy has run
  \* the animated-progress component (file-upload.ts) and its browser
  rafHandles,    \* private rafHandles: record id -> animation frame handle
  frames,        \* requested animation frames not yet run, oldest first
  rafSeq,        \* the last handle requestAnimationFrame returned
  clock,         \* milliseconds since construction
  \* the page
  session        \* component instances constructed so far over the same store

\* what only the animated-progress component and its browser touch
animVars == <<rafHandles, frames, rafSeq, clock>>

\* what only the chunked component touches
chunkVars == <<dbPromise, dbWaiters, chunks, txQueue, ops>>

vars == <<idCounter, images, videos, placeholder, pipe, dbPromise, dbWaiters,
          chunks, txQueue, ops, nCalls, revoked, localStorage, destroyed,
          rafHandles, frames, rafSeq, clock, session>>

\* ------------------------------------------------------------ pure helpers

\* mutant: the quotient is rounded down
Ceil_Floor(a, b) == a \div b

\* Math.ceil(file.size / chunkSize)
Ceil(a, b) == (a + b - 1) \div b

Min(a, b) == IF a <= b THEN a ELSE b

\* Pairs <<c, t>> within the model's sizes where the double (c / t) * 100 falls
\* just below an exact half, so that Math.round rounds down.
JsBelowHalf == {<<29, 200>>, <<57, 200>>, <<113, 200>>, <<115, 200>>}

\* Math.round((currentChunk / totalChunks) * 100), totalChunks > 0
Percent(c, t) ==
  LET exact == (200 * c + t) \div (2 * t)
  IN  IF <<c, t>> \in JsBelowHalf THEN exact - 1 ELSE exact

SeqToSet(s) == {s[i] : i \in 1..Len(s)}

\* Array.prototype.filter(item => item.id !== id) on a list of references
RECURSIVE Without(_, _)
Without(s, id) ==
  IF s = <<>> THEN <<>>
  ELSE IF Head(s) = id THEN Without(Tail(s), id)
       ELSE <<Head(s)>> \o Without(Tail(s), id)

\* rows of one file
RowsOf(rows, id) == {r \in rows : r.fileId = id}

\* objectStore.put(chunk): upsert by key path [fileId, chunkIndex]
Put(rows, chunk) ==
  {r \in rows : ~(r.fileId = chunk.fileId /\ r.chunkIndex = chunk.chunkIndex)}
    \cup {chunk}


\* ------------------------------------------------------------ the database

\* openDB's onupgradeneeded creates object store 'chunks' with key path
\* [fileId, chunkIndex] and creates no index on it.
IndexNames == {}

\* store.index('fileId') throws NotFoundError unless the index exists
HasFileIdIndex == "fileId" \in IndexNames

\* a File object is named by the session it arrived in and its arrival number
NoFile == <<0, 0>>

\* the bytes [from, to) of the File object named `file`
Bytes(file, from, to) == [file |-> file, from |-> from, to |-> to]

\* file.slice(start, end) for start, end >= 0: both ends are clamped to the
\* file's size, and the span is never negative
Slice(file, start, end) ==
  LET from == Min(start, file.size)
      to == Min(end, file.size)
  IN  Bytes(file.no, from, IF to < from THEN from ELSE to)

NoChunk ==
  [fileId |-> 0, chunkIndex |-> 0, totalChunks |-> 0, data |-> Bytes(NoFile, 0, 0)]

\* a transaction on 'chunks': kind "put" (saveChunk), "clear"
\* (clearChunksByFileId) or "getAll" (uploadAll's readonly read)
Tx(kind, chunk, op) == [kind |-> kind, chunk |-> chunk, op |-> op]

\* a continuation registered on dbPromise
Waiter(kind, id, op) == [kind |-> kind, id |-> id, op |-> op]

\* ------------------------------------------------- the mutable state bundle
\* Continuations are written as functions on a record of the mutable state,
\* so that one action can run several of them in order.
Cur ==
  [idCounter |-> idCounter, images |-> images, videos |-> videos,
   placeholder |-> placeholder, pipe |-> pipe, dbWaiters |-> dbWaiters,
   chunks |-> chunks, txQueue |-> txQueue, ops |-> ops, revoked |-> revoked]

Commit(S) ==
  /\ idCounter' = S.idCounter
  /\ images' = S.images
  /\ videos' = S.videos
  /\ placeholder' = S.placeholder
  /\ pipe' = S.pipe
  /\ dbWaiters' = S.dbWaiters
  /\ chunks' = S.chunks
  /\ txQueue' = S.txQueue
  /\ ops' = S.ops
  /\ revoked' = S.revoked

ListOf(S, type) == IF type = "image" THEN S.images ELSE S.videos

\* this.images = <new array> / this.videos = <new array>: uploadAll loops that
\* captured the old array object no longer see pushes to the list
ReplaceList(S, type, new) ==
  LET T == IF type = "image" THEN [S EXCEPT !.images = new]
                             ELSE [S EXCEPT !.videos = new]
  IN  [T EXCEPT !.ops = [k \in DOMAIN @ |->
         IF @[k].kind = "uploadAll" /\ @[k].type = type
         THEN [@[k] EXCEPT !.live = FALSE] ELSE @[k]]]

\* this.images.push(x): the same array object, seen by loops that captured it
PushList(S, type, id) ==
  LET T == IF type = "image" THEN [S EXCEPT !.images = Append(@, id)]
                             ELSE [S EXCEPT !.videos = Append(@, id)]
  IN  [T EXCEPT !.ops = [k \in DOMAIN @ |->
         IF @[k].kind = "uploadAll" /\ @[k].type = type /\ @[k].live
         THEN [@[k] EXCEPT !.items = Append(@, id)] ELSE @[k]]]

\* URL.revokeObjectURL(url)
Revoke(S, url) == [S EXCEPT !.revoked[url] = @ + 1]

\* --------------------------------------------------- processNextChunk

\* mutant: the payload is taken from the slice of the file accepted last
ChunkOf_SharedBuffer(S, id) ==
  [fileId |-> id, chunkIndex |-> S.pipe[id].currentChunk,
   totalChunks |-> S.placeholder[id].totalChunks,
   data |-> S.pipe[S.idCounter].blob]

\* the chunk handed to saveChunk for the file's current index
ChunkOf(S, id) ==
  [fileId |-> id, chunkIndex |-> S.pipe[id].currentChunk,
   totalChunks |-> S.placeholder[id].totalChunks, data |-> S.pipe[id].blob]

\* mutant: the catch block leaves the record loading
CatchError_KeepsLoading(S, id) == [S EXCEPT !.pipe[id].pc = "failed"]

\* mutant: the catch block also marks the file as finished
CatchError_MarksHundred(S, id) ==
  [S EXCEPT !.placeholder[id].loading = FALSE,
            !.placeholder[id].progress = 100, !.pipe[id].pc = "failed"]

\* mutant: the catch block clears the loading flag of every record
CatchError_AllRecords(S, id) ==
  [S EXCEPT !.placeholder = [p \in DOMAIN @ |-> [@[p] EXCEPT !.loading = FALSE]],
            !.pipe[id].pc = "failed"]

\* catch (error) { placeholder.loading = false }
CatchError(S, id) ==
  [S EXCEPT !.placeholder[id].loading = FALSE, !.pipe[id].pc = "failed"]

\* mutant: the completion test is off by one (currentChunk + 1 >= totalChunks)
ProcessNextChunk_OffByOne(S, id) ==
  LET c == S.pipe[id].currentChunk
      t == S.placeholder[id].totalChunks
      file == S.pipe[id].file
      start == c * CHUNK_SIZE
      end == Min(start + CHUNK_SIZE, file.size)
  IN  IF c + 1 >= t
      THEN [S EXCEPT !.placeholder[id].loading = FALSE,
                     !.placeholder[id].progress = 100,
                     !.pipe[id].pc = "done"]
      ELSE [S EXCEPT !.pipe[id].pc = "read",
                     !.pipe[id].blob = Slice(file, start, end)]

\* mutant: the slice's end is taken as inclusive, so each chunk loses a byte
ProcessNextChunk_InclusiveEnd(S, id) ==
  LET c == S.pipe[id].currentChunk
      t == S.placeholder[id].totalChunks
      file == S.pipe[id].file
      start == c * CHUNK_SIZE
      end == Min(start + CHUNK_SIZE, file.size) - 1
  IN  IF c >= t
      THEN [S EXCEPT !.placeholder[id].loading = FALSE,
                     !.placeholder[id].progress = 100,
                     !.pipe[id].pc = "done"]
      ELSE [S EXCEPT !.pipe[id].pc = "read",
                     !.pipe[id].blob = Slice(file, start, end)]

\* mutant: completion clears loading but leaves progress as it is
ProcessNextChunk_NoHundred(S, id) ==
  LET c == S.pipe[id].currentChunk
      t == S.placeholder[id].totalChunks
      file == S.pipe[id].file
      start == c * CHUNK_SIZE
      end == Min(start + CHUNK_SIZE, file.size)
  IN  IF c >= t
      THEN [S EXCEPT !.placeholder[id].loading = FALSE, !.pipe[id].pc = "done"]
      ELSE [S EXCEPT !.pipe[id].pc = "read",
                     !.pipe[id].blob = Slice(file, start, end)]

\* processNextChunk up to its first await: either the file is complete, or
\* the next slice is cut and blob.arrayBuffer() is pending
ProcessNextChunk(S, id) ==
  LET c == S.pipe[id].currentChunk
      t == S.placeholder[id].totalChunks
      file == S.pipe[id].file
      start == c * CHUNK_SIZE
      end == Min(start + CHUNK_SIZE, file.size)
  IN  IF c >= t
      THEN [S EXCEPT !.placeholder[id].loading = FALSE,
                     !.placeholder[id].progress = 100,
                     !.pipe[id].pc = "done"]
      ELSE [S EXCEPT !.pipe[id].pc = "read",
                     !.pipe[id].blob = Slice(file, start, end)]

\* after saveChunk resolved: currentChunk++, progress, setTimeout(..., 0)
AfterSave(S, id) ==
  LET c == S.pipe[id].currentChunk + 1
  IN  [S EXCEPT !.pipe[id].currentChunk = c,
                !.placeholder[id].progress =
                   Percent(c, S.placeholder[id].totalChunks),
                !.pipe[id].pc = "timer"]

\* mutant: the put is issued but not awaited; the pipeline moves on at once
SaveCont_NotAwaited(S, id, ok) ==
  IF ok
  THEN AfterSave([S EXCEPT !.txQueue = Append(@, Tx("put", ChunkOf(S, id), 0))],
                 id)
  ELSE CatchError(S, id)

\* saveChunk after `await this.dbPromise`
SaveCont(S, id, ok) ==
  IF ok
  THEN [S EXCEPT !.txQueue = Append(@, Tx("put", ChunkOf(S, id), 0)),
                 !.pipe[id].pc = "put"]
  ELSE CatchError(S, id)

\* ------------------------------------------ clearChunksByFileId and callers

\* clearChunksByFileId rejected: removePreview rejects at its await; the async
\* forEach callback of removeAll rejects with nobody listening
ClearRejected(S, k) ==
  [S EXCEPT !.ops[k].stage = "rejected", !.ops[k].error = "clearChunksByFileId"]

\* clearChunksByFileId after `await this.dbPromise`
ClearCont(S, k, ok) ==
  IF ok /\ HasFileIdIndex
  THEN [S EXCEPT !.txQueue = Append(@, Tx("clear",
                      [NoChunk EXCEPT !.fileId = S.ops[k].id], k)),
                 !.ops[k].stage = "tx"]
  ELSE ClearRejected(S, k)

\* the rest of removePreview / of removeAll's callback once the clear resolved
ClearResolved(S, k) ==
  LET id == S.ops[k].id
      T == [S EXCEPT !.ops[k].stage = "resolved"]
  IN  IF S.ops[k].kind = "removeAllItem"
      THEN Revoke(T, T.placeholder[id].objectUrl)
      ELSE IF id \in SeqToSet(T.images)
      THEN ReplaceList(Revoke(T, T.placeholder[id].objectUrl), "image",
                       Without(T.images, id))
      ELSE IF id \in SeqToSet(T.videos)
      THEN ReplaceList(Revoke(T, T.placeholder[id].objectUrl), "video",
                       Without(T.videos, id))
      ELSE T

\* ------------------------------------------------------------- uploadAll

\* one iteration of `for (const f of items)`: open a readonly transaction and
\* request getAll, or leave the loop and alert
UploadLoop(S, k) ==
  IF S.ops[k].i <= Len(S.ops[k].items)
  THEN [S EXCEPT !.txQueue = Append(@, Tx("getAll", NoChunk, k)),
                 !.ops[k].stage = "check"]
  ELSE [S EXCEPT !.ops[k].stage = "resolved"]

\* uploadAll after `await this.dbPromise`
UploadCont(S, k, ok) ==
  IF ok
  THEN UploadLoop(S, k)
  ELSE [S EXCEPT !.ops[k].stage = "rejected", !.ops[k].error = "dbPromise"]

\* mutant: a file with missing rows makes the export fail
UploadChecked_Throws(S, k) ==
  LET f == S.ops[k].items[S.ops[k].i]
      allChunks == RowsOf(S.chunks, f)
  IN  IF Cardinality(allChunks) # S.placeholder[f].totalChunks
      THEN [S EXCEPT !.ops[k].stage = "rejected",
                     !.ops[k].error = "missing chunks"]
      ELSE UploadLoop([S EXCEPT !.ops[k].i = @ + 1], k)

\* request.onsuccess of getAll: filter by fileId, compare with totalChunks,
\* console.warn on a mismatch
UploadChecked(S, k) ==
  LET f == S.ops[k].items[S.ops[k].i]
      allChunks == RowsOf(S.chunks, f)
      T == IF Cardinality(allChunks) # S.placeholder[f].totalChunks
           THEN [S EXCEPT !.ops[k].warned = @ \cup {f}]
           ELSE S
  IN  UploadLoop([T EXCEPT !.ops[k].i = @ + 1], k)

\* ------------------------------------------------------- awaiting dbPromise

Resume(S, w, ok) ==
  CASE w.kind = "save" -> SaveCont(S, w.id, ok)
    [] w.kind = "clear" -> ClearCont(S, w.op, ok)
    [] w.kind = "upload" -> UploadCont(S, w.op, ok)

\* mutant: a failed open is retried, successfully, by whoever awaits it next
Await_Retries(S, w) ==
  IF dbPromise = "pending"
  THEN [S EXCEPT !.dbWaiters = Append(@, w)]
  ELSE Resume(S, w, TRUE)

\* `await this.dbPromise`: continue in a microtask if it is settled
Await(S, w) ==
  IF dbPromise = "pending"
  THEN [S EXCEPT !.dbWaiters = Append(@, w)]
  ELSE Resume(S, w, dbPromise = "resolved")

\* dbPromise settles: its reactions run in registration order
RECURSIVE ResumeAll(_, _, _)
ResumeAll(S, ws, ok) ==
  IF ws = <<>> THEN S
  ELSE ResumeAll(Resume(S, Head(ws), ok), Tail(ws), ok)


\* ----------------------------------------------------------------- actions

Op(kind, id, type, stage, items) ==
  [kind |-> kind, id |-> id, type |-> type, stage |-> stage, items |-> items,
   live |-> TRUE, i |-> 1, warned |-> {},
   \* what the call's promise was rejected with, if it was
   error |-> "none",
   \* what held when the call was made (read by the properties only)
   listed |-> id \in SeqToSet(images) \cup SeqToSet(videos),
   finished |-> id \in DOMAIN pipe /\ pipe[id].pc \in {"done", "failed"}]

\* mutant: the placeholder is created as already loaded
AddFile_NotLoading(S, type, file) ==
  LET id == S.idCounter + 1
      ph == [id |-> id, size |-> file.size, objectUrl |-> id, loading |-> FALSE,
             progress |-> 0, totalChunks |-> Ceil(file.size, CHUNK_SIZE)]
      T == [S EXCEPT !.idCounter = id,
                     !.placeholder = @ @@ (id :> ph),
                     !.revoked = @ @@ (id :> 0),
                     !.pipe = @ @@ (id :> [pc |-> "start", currentChunk |-> 0,
                                           file |-> file,
                                           blob |-> Bytes(NoFile, 0, 0),
                                           \* read by the properties only
                                           afterFailure |->
                                             dbPromise = "rejected"])]
  IN  ProcessNextChunk(PushList(T, type, id), id)

\* the body of handleFiles' forEach for one file; `file` is [no, size]: the
\* File object, named by its arrival number
AddFile(S, type, file) ==
  LET id == S.idCounter + 1
      ph == [id |-> id, size |-> file.size, objectUrl |-> id, loading |-> TRUE,
             progress |-> 0, totalChunks |-> Ceil(file.size, CHUNK_SIZE)]
      T == [S EXCEPT !.idCounter = id,
                     !.placeholder = @ @@ (id :> ph),
                     !.revoked = @ @@ (id :> 0),
                     !.pipe = @ @@ (id :> [pc |-> "start", currentChunk |-> 0,
                                           file |-> file,
                                           blob |-> Bytes(NoFile, 0, 0),
                                           \* read by the properties only
                                           afterFailure |->
                                             dbPromise = "rejected"])]
  IN  ProcessNextChunk(PushList(T, type, id), id)

RECURSIVE AddFiles(_, _, _)
AddFiles(S, type, files) ==
  IF files = <<>> THEN S
  ELSE AddFiles(AddFile(S, type, Head(files)), type, Tail(files))

\* the File objects of a FileList with the given sizes; a File is named by
\* the session and its arrival number in it (`arrived` files came before)
FileList(sizes, arrived) ==
  [j \in 1..Len(sizes) |-> [no |-> <<session, arrived + j>>, size |-> sizes[j]]]

\* handleFiles(files, type), reached from onFileSelected and onFileDropped
handleFiles(type, sizes, cap) ==
  /\ ~destroyed
  /\ idCounter + Len(sizes) <= cap
  /\ Commit(AddFiles(Cur, type, FileList(sizes, idCounter)))
  /\ UNCHANGED <<dbPromise, nCalls, localStorage, destroyed>>
  /\ UNCHANGED <<animVars, session>>

\* blob.arrayBuffer() resolves; saveChunk is called and awaits dbPromise
ReadResolve(id) ==
  /\ pipe[id].pc = "read"
  /\ Commit(Await([Cur EXCEPT !.pipe[id].pc = "db"], Waiter("save", id, 0)))
  /\ UNCHANGED <<dbPromise, nCalls, localStorage, destroyed>>
  /\ UNCHANGED <<animVars, session>>

\* blob.arrayBuffer() rejects
ReadReject(id) ==
  /\ pipe[id].pc = "read"
  /\ Commit(CatchError(Cur, id))
  /\ UNCHANGED <<dbPromise, nCalls, localStorage, destroyed>>
  /\ UNCHANGED <<animVars, session>>

\* setTimeout(processNextChunk, 0) fires
Timer(id) ==
  /\ pipe[id].pc = "timer"
  /\ Commit(ProcessNextChunk(Cur, id))
  /\ UNCHANGED <<dbPromise, nCalls, localStorage, destroyed>>
  /\ UNCHANGED <<animVars, session>>

\* openDB: request.onsuccess
DbOpenSuccess ==
  /\ dbPromise = "pending"
  /\ dbPromise' = "resolved"
  /\ Commit(ResumeAll([Cur EXCEPT !.dbWaiters = <<>>], dbWaiters, TRUE))
  /\ UNCHANGED <<nCalls, localStorage, destroyed>>
  /\ UNCHANGED <<animVars, session>>

\* openDB: indexedDB missing, or request.onerror
DbOpenError ==
  /\ dbPromise = "pending"
  /\ dbPromise' = "rejected"
  /\ Commit(ResumeAll([Cur EXCEPT !.dbWaiters = <<>>], dbWaiters, FALSE))
  /\ UNCHANGED <<nCalls, localStorage, destroyed>>
  /\ UNCHANGED <<animVars, session>>

\* the oldest transaction on 'chunks' completes (tx.oncomplete, or
\* request.onsuccess for getAll)
TxComplete ==
  /\ txQueue # <<>>
  /\ LET tx == Head(txQueue)
         S == [Cur EXCEPT !.txQueue = Tail(@)]
     IN  Commit(
           CASE tx.kind = "put" ->
                  AfterSave([S EXCEPT !.chunks = Put(@, tx.chunk)],
                            tx.chunk.fileId)
             [] tx.kind = "clear" ->
                  ClearResolved([S EXCEPT !.chunks =
                                   @ \ RowsOf(@, tx.chunk.fileId)], tx.op)
             [] tx.kind = "getAll" -> UploadChecked(S, tx.op))
  /\ UNCHANGED <<dbPromise, nCalls, localStorage, destroyed>>
  /\ UNCHANGED <<animVars, session>>

\* the oldest transaction fails (tx.onerror / request.onerror)
TxError ==
  /\ txQueue # <<>>
  /\ LET tx == Head(txQueue)
         S == [Cur EXCEPT !.txQueue = Tail(@)]
     IN  Commit(
           CASE tx.kind = "put" -> CatchError(S, tx.chunk.fileId)
             [] tx.kind = "clear" -> ClearRejected(S, tx.op)
             [] tx.kind = "getAll" ->
                  [S EXCEPT !.ops[tx.op].stage = "rejected",
                            !.ops[tx.op].error = "request.error"])
  /\ UNCHANGED <<dbPromise, nCalls, localStorage, destroyed>>
  /\ UNCHANGED <<animVars, session>>

\* removePreview(id, event) up to `await this.clearChunksByFileId(id)`
removePreview(id) ==
  /\ ~destroyed
  /\ nCalls < MaxCalls
  /\ nCalls' = nCalls + 1
  /\ LET k == Len(ops) + 1
         S == [Cur EXCEPT !.ops = Append(@, Op("removePreview", id, "none",
                                                "db", <<>>))]
     IN  Commit(Await(S, Waiter("clear", id, k)))
  /\ UNCHANGED <<dbPromise, localStorage, destroyed>>
  /\ UNCHANGED <<animVars, session>>

\* items.forEach(async it => ...) of removeAll: one callback per item, each up
\* to its await
RECURSIVE RemoveEach(_, _)
RemoveEach(S, items) ==
  IF items = <<>> THEN S
  ELSE LET k == Len(S.ops) + 1
           T == [S EXCEPT !.ops = Append(@, Op("removeAllItem", Head(items),
                                                "none", "db", <<>>))]
       IN  RemoveEach(Await(T, Waiter("clear", Head(items), k)), Tail(items))

\* removeAll(type)
removeAll(type) ==
  /\ ~destroyed
  /\ nCalls < MaxCalls
  /\ nCalls' = nCalls + 1
  /\ Commit(ReplaceList(RemoveEach(Cur, ListOf(Cur, type)), type, <<>>))
  /\ UNCHANGED <<dbPromise, localStorage, destroyed>>
  /\ UNCHANGED <<animVars, session>>

\* the metadata array uploadAll serialises
Manifest(S, items) ==
  [j \in 1..Len(items) |->
     [id |-> S.placeholder[items[j]].id, size |-> S.placeholder[items[j]].size,
      totalChunks |-> S.placeholder[items[j]].totalChunks]]

\* uploadAll(type) up to `await this.dbPromise`
uploadAll(type) ==
  /\ ~destroyed
  /\ nCalls < MaxCalls
  /\ nCalls' = nCalls + 1
  /\ LET items == ListOf(Cur, type)
         k == Len(ops) + 1
     IN  IF items = <<>>
         THEN /\ Commit([Cur EXCEPT !.ops = Append(@, Op("uploadAll", 0, type,
                                                        "resolved", <<>>))])
              /\ UNCHANGED localStorage
         ELSE /\ localStorage' =
                   [localStorage EXCEPT ![type] = Manifest(Cur, items)]
              /\ Commit(Await([Cur EXCEPT !.ops = Append(@,
                                  Op("uploadAll", 0, type, "db", items))],
                              Waiter("upload", 0, k)))
  /\ UNCHANGED <<dbPromise, destroyed>>
  /\ UNCHANGED <<animVars, session>>

RECURSIVE RevokeAll(_, _)
RevokeAll(S, items) ==
  IF items = <<>> THEN S
  ELSE RevokeAll(Revoke(S, S.placeholder[Head(items)].objectUrl), Tail(items))

\* ngOnDestroy
ngOnDestroy ==
  /\ ~destroyed
  /\ destroyed' = TRUE
  /\ Commit(RevokeAll(Cur, images \o videos))
  /\ UNCHANGED <<dbPromise, nCalls, localStorage>>
  /\ UNCHANGED <<animVars, session>>

\* ------------------------------------------------------------ specification

\* the state after the constructor: empty lists, idCounter 0, openDB pending
Init ==
  /\ idCounter = 0
  /\ images = <<>>
  /\ videos = <<>>
  /\ placeholder = <<>>
  /\ pipe = <<>>
  /\ dbPromise = "pending"
  /\ dbWaiters = <<>>
  /\ chunks = {}
  /\ txQueue = <<>>
  /\ ops = <<>>
  /\ nCalls = 0
  /\ revoked = <<>>
  /\ localStorage = [t \in Types |-> <<>>]
  /\ destroyed = FALSE
  /\ rafHandles = <<>>
  /\ frames = <<>>
  /\ rafSeq = 0
  /\ clock = 0
  /\ session = 1

\* FileLists of 1..cap files with sizes from SizeSet
Batches(SizeSet, cap) ==
  UNION {[1..n -> SizeSet] : n \in 1..cap}

\* one step of a lifetime of at most `cap` files with sizes from SizeSet and at
\* most `calls` removals and exports
NextOver(SizeSet, cap, calls) ==
  \/ \E type \in Types, sizes \in Batches(SizeSet, cap) :
        handleFiles(type, sizes, cap)
  \/ \E id \in DOMAIN pipe : ReadResolve(id)
  \/ \E id \in DOMAIN pipe : ReadReject(id)
  \/ \E id \in DOMAIN pipe : Timer(id)
  \/ DbOpenSuccess
  \/ DbOpenError
  \/ TxComplete
  \/ TxError
  \/ \E id \in 1..MaxFiles : nCalls < calls /\ removePreview(id)
  \/ \E type \in Types : nCalls < calls /\ removeAll(type)
  \/ \E type \in Types : nCalls < calls /\ uploadAll(type)
  \/ ngOnDestroy

Next == NextOver(Sizes, MaxFiles, MaxCalls)

Spec == Init /\ [][Next]_vars

\* the same component fed with 200-chunk files only
NextBig == NextOver(BigSizes, MaxBigFiles, MaxCalls)

SpecBig == Init /\ [][NextBig]_vars

\* Every pipeline, store request and call of the instance has run to its end.
Idle ==
  /\ dbPromise # "pending"
  /\ dbWaiters = <<>>
  /\ txQueue = <<>>
  /\ \A id \in DOMAIN pipe : pipe[id].pc \in {"done", "failed"}

\* After the teardown of an idle instance a new one is constructed: its fields
\* have their initial values (idCounter = 0, empty lists, a new open request),
\* while the object store 'chunks' and localStorage persist.
newInstance ==
  /\ destroyed
  /\ Idle
  /\ session < MaxSessions
  /\ session' = session + 1
  /\ idCounter' = 0
  /\ images' = <<>>
  /\ videos' = <<>>
  /\ placeholder' = <<>>
  /\ pipe' = <<>>
  /\ dbPromise' = "pending"
  /\ dbWaiters' = <<>>
  /\ txQueue' = <<>>
  /\ ops' = <<>>
  /\ revoked' = <<>>
  /\ destroyed' = FALSE
  /\ UNCHANGED <<chunks, localStorage, nCalls>>
  /\ UNCHANGED animVars

\* instances of the component following each other over the same store
NextRestart ==
  \/ NextOver(Sizes, MaxRestartFiles, MaxRestartCalls)
  \/ newInstance

SpecRestart == Init /\ [][NextRestart]_vars

\* The scheduling the browser guarantees: a pending slice read settles, the
\* oldest transaction completes or fails, a timer that is due runs.
Settling ==
  /\ WF_vars(TxComplete \/ TxError)
  /\ \A id \in 1..MaxLiveFiles :
       /\ WF_vars(id \in DOMAIN pipe /\ (ReadResolve(id) \/ ReadReject(id)))
       /\ WF_vars(id \in DOMAIN pipe /\ Timer(id))

\* lifetimes of at most MaxLiveFiles files and MaxLiveCalls removals or exports
NextLive == NextOver(LiveSizes, MaxLiveFiles, MaxLiveCalls)

\* one such lifetime in which reads, transactions and timers do settle
SpecLive == Init /\ [][NextLive]_vars /\ Settling

\* the same component fed with one file of a size at or next to a chunk boundary
NextEdge == NextOver(EdgeSizes, MaxEdgeFiles, MaxCalls)

SpecEdge == Init /\ [][NextEdge]_vars

\* ------------------------------------------ the animated-progress component
\* The component of file-upload.ts has the fields idCounter, images, videos
\* and the localStorage slots of the chunked one, and no store. Its records are
\* named by creation number, since their ids need not be distinct; pipe holds
\* what the `step` closure of a record captured.

Max(a, b) == IF a >= b THEN a ELSE b

\* Math.min(1400, 300 + file.size / 1000), for sizes that are multiples of 1000
Duration(size) == Min(1400, 300 + size \div 1000)

\* Math.max(0, Math.min(100, Math.round((elapsed / duration) * 100)))
AnimPercent(elapsed, duration) ==
  Max(0, Min(100, (200 * elapsed + duration) \div (2 * duration)))

\* Date.now() + Math.random()
DateId(frac) == (DateEpoch + clock) * FractionSteps + frac

\* the id ++this.idCounter
CounterId(n) == n * FractionSteps

\* Map.set / Map.delete
MapSet(m, k, v) == [x \in DOMAIN m \cup {k} |-> IF x = k THEN v ELSE m[x]]

MapDelete(m, k) == [x \in DOMAIN m \ {k} |-> m[x]]

\* Array.splice(i, 1)
RemoveAt(list, i) == SubSeq(list, 1, i - 1) \o SubSeq(list, i + 1, Len(list))

AnimCur ==
  [idCounter |-> idCounter, images |-> images, videos |-> videos,
   placeholder |-> placeholder, pipe |-> pipe, revoked |-> revoked,
   rafHandles |-> rafHandles, frames |-> frames, rafSeq |-> rafSeq]

AnimCommit(S) ==
  /\ idCounter' = S.idCounter
  /\ images' = S.images
  /\ videos' = S.videos
  /\ placeholder' = S.placeholder
  /\ pipe' = S.pipe
  /\ revoked' = S.revoked
  /\ rafHandles' = S.rafHandles
  /\ frames' = S.frames
  /\ rafSeq' = S.rafSeq

\* the number the next record object is named by
NextObject(S) == Cardinality(DOMAIN S.placeholder) + 1

AnimPush(S, type, obj) ==
  IF type = "image" THEN [S EXCEPT !.images = Append(@, obj)]
                    ELSE [S EXCEPT !.videos = Append(@, obj)]

AnimSetList(S, type, new) ==
  IF type = "image" THEN [S EXCEPT !.images = new]
                    ELSE [S EXCEPT !.videos = new]

\* Array.findIndex(i => i.id === id), counted from 1; 0 if there is none
FindIndex(S, list, id) ==
  LET hits == {j \in 1..Len(list) : S.placeholder[list[j]].id = id}
  IN  IF hits = {} THEN 0 ELSE CHOOSE j \in hits : \A k \in hits : j <= k

\* The records `items` leave their list through the method `by`. removedBy is
\* not a field of PreviewFile: it is read by the properties only.
RECURSIVE MarkRemoved(_, _, _)
MarkRemoved(S, items, by) ==
  IF items = <<>> THEN S
  ELSE MarkRemoved([S EXCEPT !.placeholder[Head(items)].removedBy = by],
                   Tail(items), by)

\* const handle = requestAnimationFrame(step);
\* this.rafHandles.set(placeholder.id, handle)
RequestFrame(S, obj) ==
  LET handle == S.rafSeq + 1
  IN  [S EXCEPT !.rafSeq = handle,
                !.frames = Append(@, [handle |-> handle, obj |-> obj]),
                !.rafHandles = MapSet(@, S.placeholder[obj].id, handle)]

\* const raf = this.rafHandles.get(id); if (raf) cancelAnimationFrame(raf)
CancelFrameOf(S, id) ==
  IF id \in DOMAIN S.rafHandles
  THEN [S EXCEPT !.frames =
          SelectSeq(@, LAMBDA f : f.handle # S.rafHandles[id])]
  ELSE S

\* the body of onFileSelected's forEach for one file
AddSelected(S, type, size, frac) ==
  LET obj == NextObject(S)
      ph == [id |-> DateId(frac), size |-> size, objectUrl |-> obj,
             loading |-> FALSE, progress |-> 0, removedBy |-> "none"]
      T == [S EXCEPT !.placeholder = @ @@ (obj :> ph),
                     !.revoked = @ @@ (obj :> 0)]
  IN  AnimPush(T, type, obj)

RECURSIVE AddSelectedAll(_, _, _, _)
AddSelectedAll(S, type, sizes, fracs) ==
  IF sizes = <<>> THEN S
  ELSE AddSelectedAll(AddSelected(S, type, Head(sizes), Head(fracs)), type,
                      Tail(sizes), Tail(fracs))

\* onFileSelected(event, type): one record per file, no animation
onFileSelected(type, sizes, fracs) ==
  /\ ~destroyed
  /\ Cardinality(DOMAIN placeholder) + Len(sizes) <= MaxAnimFiles
  /\ AnimCommit(AddSelectedAll(AnimCur, type, sizes, fracs))
  /\ UNCHANGED <<nCalls, localStorage, destroyed, clock>>
  /\ UNCHANGED <<chunkVars, session>>

\* the body of the animated handleFiles' forEach for one file
AddDropped(S, type, size) ==
  LET id == S.idCounter + 1
      obj == NextObject(S)
      ph == [id |-> CounterId(id), size |-> size, objectUrl |-> obj,
             loading |-> TRUE, progress |-> 0, removedBy |-> "none"]
      T == [S EXCEPT !.idCounter = id,
                     !.placeholder = @ @@ (obj :> ph),
                     !.revoked = @ @@ (obj :> 0),
                     !.pipe = @ @@ (obj :> [start |-> clock, type |-> type,
                                            duration |-> Duration(size)])]
  IN  RequestFrame(AnimPush(T, type, obj), obj)

RECURSIVE AddDroppedAll(_, _, _)
AddDroppedAll(S, type, sizes) ==
  IF sizes = <<>> THEN S
  ELSE AddDroppedAll(AddDropped(S, type, Head(sizes)), type, Tail(sizes))

\* handleFiles(files, type) of the animated component, reached from
\* onFileDropped
handleFilesAnimated(type, sizes) ==
  /\ ~destroyed
  /\ Cardinality(DOMAIN placeholder) + Len(sizes) <= MaxAnimFiles
  /\ AnimCommit(AddDroppedAll(AnimCur, type, sizes))
  /\ UNCHANGED <<nCalls, localStorage, destroyed, clock>>
  /\ UNCHANGED <<chunkVars, session>>

\* step(now): set the progress, replace the list by a copy of itself, and
\* either request the next frame or drop the handle
Step(S, obj, now) ==
  LET percent == AnimPercent(now - S.pipe[obj].start, S.pipe[obj].duration)
      T == [S EXCEPT !.placeholder[obj].progress = percent]
  IN  IF percent < 100
      THEN RequestFrame(T, obj)
      ELSE [T EXCEPT !.rafHandles = MapDelete(@, T.placeholder[obj].id)]

RECURSIVE RunFrames(_, _, _)
RunFrames(S, fs, now) ==
  IF fs = <<>> THEN S
  ELSE RunFrames(Step(S, Head(fs).obj, now), Tail(fs), now)

\* the browser renders a frame dt milliseconds after the last one: every
\* callback requested so far runs, in request order
animationFrame(dt) ==
  /\ clock + dt <= MaxClock
  /\ clock' = clock + dt
  /\ AnimCommit(RunFrames([AnimCur EXCEPT !.frames = <<>>], frames, clock + dt))
  /\ UNCHANGED <<nCalls, localStorage, destroyed>>
  /\ UNCHANGED <<chunkVars, session>>

\* onPreviewLoaded(id)
onPreviewLoaded(id) ==
  /\ ~destroyed
  /\ LET i == FindIndex(AnimCur, images, id)
         j == FindIndex(AnimCur, videos, id)
         item == IF i > 0 THEN images[i] ELSE videos[j]
         S == IF id \in DOMAIN rafHandles
              THEN [CancelFrameOf(AnimCur, id) EXCEPT
                      !.rafHandles = MapDelete(@, id)]
              ELSE AnimCur
     IN  /\ i > 0 \/ j > 0
         /\ AnimCommit([S EXCEPT !.placeholder[item].progress = 100,
                                 !.placeholder[item].loading = FALSE])
  /\ UNCHANGED <<nCalls, localStorage, destroyed, clock>>
  /\ UNCHANGED <<chunkVars, session>>

\* one branch of removePreview: splice, revoke, cancel the frame, drop the
\* handle
RemoveFound(S, type, i, id) ==
  LET obj == ListOf(S, type)[i]
      T == MarkRemoved(AnimSetList(S, type, RemoveAt(ListOf(S, type), i)),
                       <<obj>>, "removePreview")
      U == CancelFrameOf(Revoke(T, T.placeholder[obj].objectUrl), id)
  IN  [U EXCEPT !.rafHandles = MapDelete(@, id)]

\* removePreview(id, event) of the animated component
removePreviewAnimated(id) ==
  /\ ~destroyed
  /\ LET i == FindIndex(AnimCur, images, id)
         j == FindIndex(AnimCur, videos, id)
     IN  AnimCommit(IF i > 0 THEN RemoveFound(AnimCur, "image", i, id)
                    ELSE IF j > 0 THEN RemoveFound(AnimCur, "video", j, id)
                    ELSE AnimCur)
  /\ UNCHANGED <<nCalls, localStorage, destroyed, clock>>
  /\ UNCHANGED <<chunkVars, session>>

\* removeAll(type) of the animated component
removeAllAnimated(type) ==
  /\ ~destroyed
  /\ LET items == ListOf(AnimCur, type)
     IN  AnimCommit(MarkRemoved(AnimSetList(RevokeAll(AnimCur, items), type,
                                            <<>>),
                                items, "removeAll"))
  /\ UNCHANGED <<nCalls, localStorage, destroyed, clock>>
  /\ UNCHANGED <<chunkVars, session>>

\* uploadAll(type) of the animated component
uploadAllAnimated(type) ==
  /\ ~destroyed
  /\ LET items == ListOf(AnimCur, type)
     IN  /\ items # <<>>
         /\ localStorage' =
              [localStorage EXCEPT ![type] =
                 [j \in 1..Len(items) |->
                    [id |-> placeholder[items[j]].id,
                     size |-> placeholder[items[j]].size]]]
         /\ AnimCommit(MarkRemoved(AnimSetList(RevokeAll(AnimCur, items), type,
                                            <<>>),
                                items, "uploadAll"))
  /\ UNCHANGED <<nCalls, destroyed, clock>>
  /\ UNCHANGED <<chunkVars, session>>

RECURSIVE DestroyEach(_, _)
DestroyEach(S, items) ==
  IF items = <<>> THEN S
  ELSE LET it == S.placeholder[Head(items)]
       IN  DestroyEach(CancelFrameOf(Revoke(S, it.objectUrl), it.id),
                       Tail(items))

\* ngOnDestroy of the animated component
ngOnDestroyAnimated ==
  /\ ~destroyed
  /\ destroyed' = TRUE
  /\ AnimCommit([DestroyEach(AnimCur, images \o videos) EXCEPT
                   !.rafHandles = <<>>])
  /\ UNCHANGED <<nCalls, localStorage, clock>>
  /\ UNCHANGED <<chunkVars, session>>

\* the ids of the records created so far
AnimIds == {placeholder[obj].id : obj \in DOMAIN placeholder}

NextAnim ==
  \/ \E type \in Types, sizes \in Batches(AnimSizes, MaxAnimFiles) :
        \E fracs \in [1..Len(sizes) -> RandomFractions] :
          onFileSelected(type, sizes, fracs)
  \/ \E type \in Types, sizes \in Batches(AnimSizes, MaxAnimFiles) :
        handleFilesAnimated(type, sizes)
  \/ \E dt \in FrameGaps : animationFrame(dt)
  \/ \E id \in AnimIds : onPreviewLoaded(id)
  \/ \E id \in AnimIds : removePreviewAnimated(id)
  \/ \E type \in Types : removeAllAnimated(type)
  \/ \E type \in Types : uploadAllAnimated(type)
  \/ ngOnDestroyAnimated

SpecAnim == Init /\ [][NextAnim]_vars

\* ------------------------------------------------------ state read by claims

Allocated == DOMAIN placeholder

\* the record is in one of the two observable lists
Listed(id) == id \in SeqToSet(images) \cup SeqToSet(videos)

Rows(id) == RowsOf(chunks, id)

Indices(id) == {r.chunkIndex : r \in Rows(id)}

\* saveChunk transactions of one file that have not completed yet
PutsInFlight(id) ==
  {j \in 1..Len(txQueue) :
     txQueue[j].kind = "put" /\ txQueue[j].chunk.fileId = id}

\* all totalChunks rows of the file are stored, and nothing else under its id
Complete(id) ==
  /\ Cardinality(Rows(id)) = placeholder[id].totalChunks
  /\ Indices(id) = 0..(placeholder[id].totalChunks - 1)

RemovalKinds == {"removePreview", "removeAllItem"}

\* some clearChunksByFileId(id) issued by a removal has resolved
ClearedFor(id) ==
  \E k \in DOMAIN ops :
    ops[k].kind \in RemovalKinds /\ ops[k].id = id /\ ops[k].stage = "resolved"

\* ------------------------------------------------------------------ claims

\* C1: a listed file whose reads and saves all succeeded, once loading=false,
\* has exactly totalChunks rows, with chunkIndex exactly 0..totalChunks-1.
C1_CompleteAfterIngestion ==
  \A id \in Allocated :
    (Listed(id) /\ pipe[id].pc = "done" /\ ~placeholder[id].loading)
      => Complete(id)

C1_Witness ==
  \E id \in Allocated :
    /\ Listed(id) /\ pipe[id].pc = "done" /\ ~placeholder[id].loading
    /\ placeholder[id].totalChunks = 2
    /\ Indices(id) = {0, 1}

\* C2: within one file chunk i+1 is not started before the save of chunk i has
\* resolved: for a listed file the stored indices are the prefix
\* 0..currentChunk-1, at most one saveChunk is in flight, and it is the one
\* for index currentChunk.
C2_SequentialChunks ==
  \A id \in Allocated :
    Listed(id) =>
      /\ Indices(id) = 0..(pipe[id].currentChunk - 1)
      /\ Cardinality(Rows(id)) = pipe[id].currentChunk
      /\ Cardinality(PutsInFlight(id)) <= 1
      /\ \A j \in PutsInFlight(id) :
           /\ txQueue[j].chunk.chunkIndex = pipe[id].currentChunk
           /\ pipe[id].pc = "put"

C2_Witness ==
  \E id \in Allocated :
    /\ Listed(id)
    /\ Indices(id) = {0}
    /\ \E j \in PutsInFlight(id) : txQueue[j].chunk.chunkIndex = 1

\* C3: the progress of a record never decreases, and it is 100 exactly when
\* the ingestion completed normally (an aborted or unfinished ingestion never
\* shows 100), whatever totalChunks is.
C3_HundredIffCompleted ==
  /\ [](\A id \in Allocated :
          placeholder[id].progress = 100 <=> pipe[id].pc = "done")
  /\ [][\A id \in Allocated :
          placeholder'[id].progress >= placeholder[id].progress]_vars

C5_AbortFreezes ==
  /\ [](\A id \in Allocated :
          pipe[id].pc = "failed" =>
            /\ ~placeholder[id].loading
            /\ placeholder[id].progress =
                 Percent(pipe[id].currentChunk, placeholder[id].totalChunks)
            /\ Indices(id) = 0..(pipe[id].currentChunk - 1)
            /\ Cardinality(Rows(id)) < placeholder[id].totalChunks
            /\ PutsInFlight(id) = {})
  /\ [][\A id \in Allocated :
          pipe[id].pc = "failed" =>
            /\ pipe'[id] = pipe[id]
            /\ placeholder'[id] = placeholder[id]
            /\ RowsOf(chunks', id) = Rows(id)]_vars

C5_Witness ==
  \E id \in Allocated :
    /\ pipe[id].pc = "failed"
    /\ pipe[id].currentChunk = 1
    /\ placeholder[id].totalChunks = 2
    /\ placeholder[id].progress = 50
    /\ Indices(id) = {0}

\* C6: a read or write failure of one file leaves every other file alone: the
\* failing step changes no field of another record, nothing of another
\* pipeline and no row of another file, and a file whose own operations all
\* succeeded is complete with loading=false and progress 100 although another
\* file has failed.
C6_FailureIsLocal ==
  /\ [](\A f, g \in Allocated :
          (f # g /\ pipe[f].pc = "failed" /\ pipe[g].pc = "done") =>
            /\ Complete(g)
            /\ ~placeholder[g].loading
            /\ placeholder[g].progress = 100)
  /\ [][\A f \in Allocated :
          (pipe[f].pc # "failed" /\ pipe'[f].pc = "failed"
             /\ dbPromise' = dbPromise) =>
            \A g \in Allocated \ {f} :
              /\ placeholder'[g] = placeholder[g]
              /\ pipe'[g] = pipe[g]
              /\ RowsOf(chunks', g) = Rows(g)]_vars

C6_Witness ==
  \E f, g \in Allocated :
    /\ f # g
    /\ pipe[f].pc = "failed" /\ placeholder[f].totalChunks = 2
    /\ pipe[g].pc = "done" /\ placeholder[g].totalChunks = 2
    /\ Complete(g) /\ placeholder[g].progress = 100

\* C7: removePreview(id) for a listed record whose ingestion has finished,
\* with the database open, completes with no row left under that fileId and
\* the record in neither list.
C7_RemovePreviewRemoves ==
  \A k \in DOMAIN ops :
    (/\ ops[k].kind = "removePreview"
     /\ ops[k].listed /\ ops[k].finished
     /\ dbPromise = "resolved"
     /\ txQueue = <<>>)
      => /\ ops[k].stage = "resolved"
         /\ Rows(ops[k].id) = {}
         /\ ~Listed(ops[k].id)

\* C8: once a record has been removed from its list, no row with its fileId
\* is in the chunk store, in that state or any later one.
C8_NoRowsAfterRemoval ==
  \A id \in Allocated : ~Listed(id) => Rows(id) = {}

\* C9: a record is absent from its list only after the deletion of its chunks
\* has completed and its preview handle has been revoked.
C9_ClearRevokeThenUnlist ==
  \A id \in Allocated :
    ~Listed(id) => (ClearedFor(id) /\ revoked[placeholder[id].objectUrl] >= 1)

\* C10: when clearChunksByFileId fails during removePreview or removeAll, the
\* record stays in its list and its preview handle stays unrevoked.
C10_FailedRemovalKeepsRecord ==
  \A k \in DOMAIN ops :
    (/\ ops[k].kind \in RemovalKinds
     /\ ops[k].listed
     /\ ops[k].stage = "rejected"
     /\ ~destroyed
     /\ ~ClearedFor(ops[k].id))
      => /\ Listed(ops[k].id)
         /\ revoked[placeholder[ops[k].id].objectUrl] = 0

\* every callback that was pending has run
Quiescent ==
  /\ dbPromise # "pending"
  /\ dbWaiters = <<>>
  /\ txQueue = <<>>
  /\ \A k \in DOMAIN ops : ops[k].stage \in {"resolved", "rejected"}

\* C11: removePreview(id) for an id in neither list, with the database open,
\* completes without error, and leaves both lists and every chunk row as they
\* were.
C11_RemoveAbsentIsNoOp ==
  /\ [](\A k \in DOMAIN ops :
          (/\ ops[k].kind = "removePreview"
           /\ ~ops[k].listed
           /\ dbPromise = "resolved"
           /\ txQueue = <<>>)
            => ops[k].stage = "resolved")
  /\ [][\A id \in 1..MaxFiles :
          (removePreview(id) /\ ~Listed(id)) =>
            (images' = images /\ videos' = videos /\ chunks' = chunks)]_vars

\* C12: once a record has been removed from its list or the component has
\* been destroyed, and every pending callback has run, its preview handle has
\* been revoked exactly once; no handle is ever revoked twice.
C12_RevokedExactlyOnce ==
  \A id \in Allocated :
    /\ revoked[placeholder[id].objectUrl] <= 1
    /\ ((~Listed(id) \/ destroyed) /\ Quiescent)
         => revoked[placeholder[id].objectUrl] = 1

\* C13: removeAll(type) empties that list and leaves the other list, its
\* records, their handles and their rows unchanged; once its callbacks have
\* run with the database open, every record that was in the list has no chunk
\* row left and its handle revoked.
C13_RemoveAllCleansPartition ==
  /\ [](\A k \in DOMAIN ops :
          (/\ ops[k].kind = "removeAllItem"
           /\ dbPromise = "resolved"
           /\ txQueue = <<>>)
            => /\ ~Listed(ops[k].id)
               /\ Rows(ops[k].id) = {}
               /\ revoked[placeholder[ops[k].id].objectUrl] >= 1)
  /\ [][\A type \in Types :
          removeAll(type) =>
            LET other == IF type = "image" THEN "video" ELSE "image"
                kept == SeqToSet(ListOf(Cur, other))
            IN  /\ ListOf(Cur, type)' = <<>>
                /\ ListOf(Cur, other)' = ListOf(Cur, other)
                /\ \A g \in kept :
                     /\ placeholder'[g] = placeholder[g]
                     /\ revoked'[g] = revoked[g]
                     /\ RowsOf(chunks', g) = Rows(g)]_vars

\* C14: whatever the interleaving of concurrently ingested files, the row
\* stored under fileId f and chunkIndex i carries the totalChunks of the file
\* that was given id f and the bytes of that file's i-th slice.
C14_NoCrossWrites ==
  \A r \in chunks :
    /\ r.fileId \in Allocated
    /\ r.totalChunks = placeholder[r.fileId].totalChunks
    /\ r.chunkIndex \in 0..(r.totalChunks - 1)
    /\ r.data =
         Bytes(pipe[r.fileId].file.no, r.chunkIndex * CHUNK_SIZE,
               Min((r.chunkIndex + 1) * CHUNK_SIZE, pipe[r.fileId].file.size))

\* two files of different partitions ingested concurrently, both with rows
C14_Witness ==
  \E f \in SeqToSet(images), g \in SeqToSet(videos) :
    /\ pipe[f].pc \in {"read", "put", "timer"}
    /\ pipe[g].pc \in {"read", "put", "timer"}
    /\ Indices(f) = {0}
    /\ Indices(g) = {0}

\* a byte sequence as its runs: a sequence of non-empty byte ranges in which no
\* range continues the one before it
Cat(s, b) ==
  IF b.from = b.to
  THEN s
  ELSE IF s # <<>> /\ s[Len(s)].file = b.file /\ s[Len(s)].to = b.from
       THEN [s EXCEPT ![Len(s)].to = b.to]
       ELSE Append(s, b)

\* the payloads of the rows 0..n-1 of a file, concatenated in chunkIndex order
RECURSIVE Payloads(_, _)
Payloads(id, n) ==
  IF n = 0
  THEN <<>>
  ELSE Cat(Payloads(id, n - 1),
           (CHOOSE r \in Rows(id) : r.chunkIndex = n - 1).data)

\* the original byte sequence of the file that was given this id
Original(id) ==
  Cat(<<>>, Bytes(pipe[id].file.no, 0, pipe[id].file.size))

\* C15: after the successful ingestion of a file of size S, chunk i holds
\* exactly the bytes [i*CHUNK_SIZE, min((i+1)*CHUNK_SIZE, S)) of that file, and
\* the stored payloads concatenated in chunkIndex order are the original bytes.
C15_RoundTrip ==
  \A id \in Allocated :
    (pipe[id].pc = "done" /\ ~placeholder[id].loading) =>
      /\ Indices(id) = 0..(placeholder[id].totalChunks - 1)
      /\ \A r \in Rows(id) :
           r.data = Bytes(pipe[id].file.no, r.chunkIndex * CHUNK_SIZE,
                          Min((r.chunkIndex + 1) * CHUNK_SIZE,
                              pipe[id].file.size))
      /\ Payloads(id, placeholder[id].totalChunks) = Original(id)

\* a file whose last chunk is shorter than the others has been ingested
C15_Witness ==
  \E id \in Allocated :
    /\ pipe[id].pc = "done" /\ ~placeholder[id].loading
    /\ pipe[id].file.size = 300000
    /\ Payloads(id, 2) = <<Bytes(pipe[id].file.no, 0, 300000)>>
    /\ \E r \in Rows(id) : r.data.to - r.data.from = 300000 - CHUNK_SIZE

\* ceil(S / CHUNK_SIZE), from its definition: the least n with n*CHUNK_SIZE >= S
CeilOfSize(size) ==
  CHOOSE n \in 0..(size \div CHUNK_SIZE + 1) : n * CHUNK_SIZE >= size /\ (n - 1) * CHUNK_SIZE < size

\* the payload lengths of the stored rows of a file, in chunkIndex order
Lengths(id) ==
  [j \in 1..Cardinality(Rows(id)) |->
     LET r == CHOOSE r \in Rows(id) : r.chunkIndex = j - 1
     IN  r.data.to - r.data.from]

\* C16: for every file size S >= 0 the totalChunks of the file record and of
\* each of its chunk rows is ceil(S / 262144); 0 for S = 0, and 2 for
\* S = 300000, stored as chunks of 262144 and 37856 bytes.
C16_TotalChunksIsCeil ==
  \A id \in Allocated :
    LET size == pipe[id].file.size
    IN  /\ placeholder[id].totalChunks = CeilOfSize(size)
        /\ \A r \in Rows(id) : r.totalChunks = CeilOfSize(size)
        /\ size = 0 => placeholder[id].totalChunks = 0
        /\ size = 300000 => placeholder[id].totalChunks = 2
        /\ (size = 300000 /\ pipe[id].pc = "done" /\ ~placeholder[id].loading)
             => Lengths(id) = <<262144, 37856>>

\* a file one byte longer than two chunks is stored as three rows
C16_Witness ==
  \E id \in Allocated :
    /\ pipe[id].file.size = 2 * CHUNK_SIZE + 1
    /\ placeholder[id].totalChunks = 3
    /\ Lengths(id) = <<CHUNK_SIZE, CHUNK_SIZE, 1>>

\* the ids a handleFiles call has just allocated, in allocation order
NewIds == [j \in 1..(idCounter' - idCounter) |-> idCounter + j]

\* the step is a handleFiles call that appended its records to one partition
AppendedToOnePartition ==
  \/ images' = images \o NewIds /\ videos' = videos
  \/ videos' = videos \o NewIds /\ images' = images

\* no chunk of the file is stored or on its way to the store
NothingCommitted(id) ==
  /\ RowsOf(chunks', id) = {}
  /\ \A j \in 1..Len(txQueue') :
       txQueue'[j].kind = "put" => txQueue'[j].chunk.fileId # id

\* C17 as stated: when handleFiles returns, every file of the batch, of any
\* size, has a record in the target partition with loading = true and
\* progress = 0, and none of its chunks is committed.
C17_AllLoadingOnReturn ==
  [][idCounter' > idCounter =>
       /\ AppendedToOnePartition
       /\ \A j \in 1..Len(NewIds) :
            /\ placeholder'[NewIds[j]].loading
            /\ placeholder'[NewIds[j]].progress = 0
            /\ NothingCommitted(NewIds[j])]_vars

\* C17, amended: when handleFiles returns, every file of the batch has a
\* record in the target partition and none of its chunks is committed; a file
\* of at least one byte has loading = true and progress = 0, while a file of
\* 0 bytes is already complete (loading = false, progress = 100).
C17_NonEmptyLoadingOnReturn ==
  [][idCounter' > idCounter =>
       /\ AppendedToOnePartition
       /\ chunks' = chunks
       /\ \A j \in 1..Len(NewIds) :
            LET ph == placeholder'[NewIds[j]]
            IN  /\ NothingCommitted(NewIds[j])
                /\ ph.size > 0 => ph.loading /\ ph.progress = 0
                /\ ph.size = 0 => ~ph.loading /\ ph.progress = 100]_vars

\* handleFiles has just returned from a batch of a 300000-byte file and an
\* empty one: both are listed, the first is loading, the second is complete
C17_Witness ==
  \E f, g \in Allocated :
    /\ images \o videos = <<f, g>>
    /\ placeholder[f].size = 300000 /\ placeholder[g].size = 0
    /\ placeholder[f].loading /\ placeholder[f].progress = 0
    /\ pipe[f].pc = "read" /\ pipe[f].currentChunk = 0
    /\ ~placeholder[g].loading /\ placeholder[g].progress = 100
    /\ chunks = {} /\ txQueue = <<>>

\* the database is opened once: dbPromise settles at most once, nothing touches
\* the store before it has resolved, and once it is rejected every operation
\* that awaited or awaits it has failed (an uploadAll of an empty partition
\* returns before the await, without having looked at any item)
SingleOpen ==
  /\ [](dbPromise # "resolved" => chunks = {} /\ txQueue = <<>>)
  /\ [](dbPromise # "pending" => dbWaiters = <<>>)
  /\ [](dbPromise = "rejected" =>
          \A k \in DOMAIN ops :
            \/ ops[k].stage = "rejected"
            \/ /\ ops[k].kind = "uploadAll"
               /\ ops[k].stage = "resolved"
               /\ ops[k].i = 1)
  /\ [][dbPromise # "pending" => dbPromise' = dbPromise]_vars

\* C18 as stated: the database is opened at most once and every store
\* operation awaits that open; after a failed open every store operation
\* fails, and every file ingested afterwards ends with loading = false,
\* progress 0 and no chunk rows.
C18_FailedOpenFailsEveryFile ==
  /\ SingleOpen
  /\ [](\A id \in Allocated :
          (pipe[id].afterFailure /\ pipe[id].pc \in {"done", "failed"}) =>
            /\ ~placeholder[id].loading
            /\ placeholder[id].progress = 0
            /\ Rows(id) = {})

\* C18, amended: as above for every file of at least one byte, which ends in
\* the failed state; a file of 0 bytes needs no store operation and completes
\* with progress 100.
C18_FailedOpenFailsEveryNonEmptyFile ==
  /\ SingleOpen
  /\ [](\A id \in Allocated :
          pipe[id].afterFailure =>
            /\ Rows(id) = {}
            /\ placeholder[id].totalChunks > 0 =>
                 /\ pipe[id].pc \in {"read", "failed"}
                 /\ placeholder[id].progress = 0
                 /\ pipe[id].pc = "failed" => ~placeholder[id].loading
            /\ placeholder[id].totalChunks = 0 =>
                 /\ pipe[id].pc = "done"
                 /\ ~placeholder[id].loading
                 /\ placeholder[id].progress = 100)

\* after the open failed, a two-chunk file was ingested and has failed at its
\* first saveChunk, and a removal and an export have been rejected
C18_Witness ==
  /\ dbPromise = "rejected"
  /\ \E id \in Allocated :
       /\ pipe[id].afterFailure
       /\ placeholder[id].totalChunks = 2
       /\ pipe[id].pc = "failed"
       /\ ~placeholder[id].loading /\ placeholder[id].progress = 0
  /\ \E k \in DOMAIN ops :
       ops[k].kind = "uploadAll" /\ ops[k].stage = "rejected"
  /\ \E k \in DOMAIN ops :
       ops[k].kind \in RemovalKinds /\ ops[k].stage = "rejected"

\* the step is a call of uploadAll: it has added the export as the last op
UploadCalled ==
  /\ Len(ops') = Len(ops) + 1
  /\ ops'[Len(ops')].kind = "uploadAll"

\* the call writes one manifest entry per record of the partition, in list
\* order, to the partition's slot only; on an empty partition it writes
\* nothing and has succeeded
ManifestWritten ==
  LET op == ops'[Len(ops')]
      list == IF op.type = "image" THEN images ELSE videos
  IN  IF list = <<>>
      THEN localStorage' = localStorage /\ op.stage = "resolved"
      ELSE /\ Len(localStorage'[op.type]) = Len(list)
           /\ \A j \in 1..Len(list) :
                /\ localStorage'[op.type][j].id = list[j]
                /\ localStorage'[op.type][j].totalChunks =
                     placeholder[list[j]].totalChunks
           /\ \A t \in Types \ {op.type} : localStorage'[t] = localStorage[t]

\* export k has just compared the rows of its current file with totalChunks:
\* it warns exactly on a difference, and goes on
CheckedOne(k) ==
  LET f == ops[k].items[ops[k].i]
  IN  /\ ops'[k].warned =
           ops[k].warned \cup
             (IF Cardinality(Rows(f)) # placeholder[f].totalChunks
              THEN {f} ELSE {})
      /\ ops'[k].stage \in {"check", "resolved"}

\* export k fails only with the store: the open has failed, or its own getAll
\* request has
FailedWithStore(k) ==
  \/ dbPromise' = "rejected" /\ ops'[k].error = "dbPromise"
  \/ /\ ops'[k].error = "request.error"
     /\ txQueue # <<>>
     /\ Head(txQueue).kind = "getAll"
     /\ Head(txQueue).op = k
     /\ ops'[k].i = ops[k].i

\* C19: uploadAll(type) on a non-empty partition writes a manifest with one
\* entry per record of the partition (same ids, in list order) to that
\* partition's slot; it then looks at every file of the list, warns for exactly
\* those whose stored row count differs from totalChunks, and succeeds all the
\* same (it fails only when the store itself does). On an empty partition it
\* writes nothing and succeeds.
C19_ExportWarnsAndSucceeds ==
  /\ [][UploadCalled => ManifestWritten]_vars
  /\ [][localStorage' # localStorage => UploadCalled]_vars
  /\ [][\A k \in DOMAIN ops :
          ops[k].kind = "uploadAll" =>
            /\ ops'[k].i = ops[k].i + 1 => CheckedOne(k)
            /\ ops'[k].i \in {ops[k].i, ops[k].i + 1}
            /\ ops'[k].warned # ops[k].warned => ops'[k].i = ops[k].i + 1
            /\ (ops'[k].stage = "resolved" /\ ops[k].stage # "resolved")
                 => ops'[k].i = Len(ops'[k].items) + 1
            /\ (ops'[k].stage = "rejected" /\ ops[k].stage # "rejected")
                 => FailedWithStore(k)]_vars

\* an export of two files has succeeded with a manifest of two entries and a
\* warning for the one file that was still being ingested
C19_Witness ==
  \E k \in DOMAIN ops :
    /\ ops[k].kind = "uploadAll"
    /\ ops[k].stage = "resolved"
    /\ Len(ops[k].items) = 2
    /\ Len(localStorage[ops[k].type]) = 2
    /\ ops[k].warned = {ops[k].items[2]}
    /\ Complete(ops[k].items[1])

\* C20: the ids handleFiles allocates are strictly increasing in allocation
\* order (so never reused), and in every reachable state no two records of the
\* image and video lists together share an id, a record being in exactly one
\* of the two lists.
C20_UniqueIds ==
  LET all == images \o videos
  IN  /\ \A a, b \in DOMAIN pipe :
           a < b => placeholder[a].id < placeholder[b].id
      /\ \A i, j \in 1..Len(all) :
           i # j => placeholder[all[i]].id # placeholder[all[j]].id

\* n / d rounded to the nearest integer, halves upwards
Round(n, d) == (2 * n + d) \div (2 * d)

\* C21: in every reachable state every record still in a partition with
\* totalChunks > 0 has progress = round(100 * c / totalChunks), where c is the
\* number of chunk rows stored under its fileId.
C21_ProgressIsCommittedRatio ==
  \A id \in Allocated :
    (Listed(id) /\ placeholder[id].totalChunks > 0) =>
      placeholder[id].progress =
        Round(100 * Cardinality(Rows(id)), placeholder[id].totalChunks)

\* the request to open the database succeeds or fails at some time
OpenSettles == <>(dbPromise # "pending")

\* every record handleFiles creates comes to loading = false, for good
Terminates ==
  \A id \in 1..MaxLiveFiles :
    (id \in Allocated) ~> [](id \in Allocated /\ ~placeholder[id].loading)

\* a record stops loading after exactly totalChunks commits, or at its first
\* failure, and not before
StopsWhenDoneOrFailed ==
  \A id \in Allocated :
    /\ placeholder[id].loading <=>
         pipe[id].pc \in {"read", "db", "put", "timer"}
    /\ pipe[id].pc = "done" =>
         /\ pipe[id].currentChunk = placeholder[id].totalChunks
         /\ Cardinality(Rows(id)) = placeholder[id].totalChunks
    /\ pipe[id].pc = "failed" =>
         /\ pipe[id].currentChunk < placeholder[id].totalChunks
         /\ Cardinality(Rows(id)) = pipe[id].currentChunk

C23_NoRowsOfEarlierSessions ==
  \A id \in Allocated :
    (session > 1 /\ pipe[id].pc = "done" /\ ~placeholder[id].loading) =>
      /\ Complete(id)
      /\ \A r \in Rows(id) :
           /\ r.data.file = pipe[id].file.no
           /\ r.totalChunks = placeholder[id].totalChunks

\* the record object has an animation frame requested and not cancelled
Animating(obj) == \E j \in 1..Len(frames) : frames[j].obj = obj

\* C24: in the animated-progress component, once a record has been removed by
\* removePreview or removeAll, at any point of its animation, or the component
\* has been destroyed, no animation step is due for the record any more and
\* rafHandles holds no entry for its id.
C24_RemovalStopsAnimation ==
  \A obj \in DOMAIN placeholder :
    (placeholder[obj].removedBy \in {"removePreview", "removeAll"} \/ destroyed)
      => /\ ~Animating(obj)
         /\ placeholder[obj].id \notin DOMAIN rafHandles

====
